---------------------------- MODULE Spec2Model ----------------------------
(***************************************************************************)
(* Model of src/calculator.js: the home affordability calculator.          *)
(*                                                                         *)
(* Every JavaScript Number is an IEEE-754 binary64 value.  The arithmetic  *)
(* of the source ( + - * / <= < > Math.min Math.pow ) is modelled on       *)
(* binary64 values with round-to-nearest-even, signed zeros, the two       *)
(* infinities and NaN.  A finite value is  (-1)^s * m * 2^e  where the     *)
(* significand m is a 53-bit natural number held as a little-endian        *)
(* sequence of 15-bit limbs (TLC integers are 32 bits wide).               *)
(***************************************************************************)
EXTENDS Integers, Sequences, FiniteSets, TLC

(***************************************************************************)
(* Natural numbers of any size: little-endian limb sequences, no leading   *)
(* zero limb, zero is << >>.                                               *)
(***************************************************************************)
LimbBits == 15
Base == 2 ^ LimbBits

Limb(a, i) == IF i <= Len(a) THEN a[i] ELSE 0

RECURSIVE BNorm(_)
BNorm(a) ==
    IF a = << >> THEN a
    ELSE IF a[Len(a)] = 0 THEN BNorm(SubSeq(a, 1, Len(a) - 1))
    ELSE a

RECURSIVE BFromInt(_)
BFromInt(n) == IF n = 0 THEN << >> ELSE <<n % Base>> \o BFromInt(n \div Base)

RECURSIVE BToInt(_)
BToInt(a) == IF a = << >> THEN 0 ELSE a[1] + Base * BToInt(Tail(a))

RECURSIVE BAddC(_, _, _, _)
BAddC(a, b, i, c) ==
    IF i > Len(a) /\ i > Len(b)
    THEN (IF c = 0 THEN << >> ELSE <<c>>)
    ELSE LET s == Limb(a, i) + Limb(b, i) + c
         IN  <<s % Base>> \o BAddC(a, b, i + 1, s \div Base)

BAdd(a, b) == BAddC(a, b, 1, 0)

\* a - b for a >= b
RECURSIVE BSubC(_, _, _, _)
BSubC(a, b, i, c) ==
    IF i > Len(a) THEN << >>
    ELSE LET s == a[i] - Limb(b, i) - c
         IN  IF s < 0 THEN <<s + Base>> \o BSubC(a, b, i + 1, 1)
                      ELSE <<s>> \o BSubC(a, b, i + 1, 0)

BSub(a, b) == BNorm(BSubC(a, b, 1, 0))

\* -1, 0, 1 as a < b, a = b, a > b
RECURSIVE BCmpFrom(_, _, _)
BCmpFrom(a, b, i) ==
    IF i = 0 THEN 0
    ELSE IF a[i] < b[i] THEN -1
    ELSE IF a[i] > b[i] THEN 1
    ELSE BCmpFrom(a, b, i - 1)

BCmp(a, b) ==
    IF Len(a) < Len(b) THEN -1
    ELSE IF Len(a) > Len(b) THEN 1
    ELSE BCmpFrom(a, b, Len(a))

\* a * k for 0 <= k < Base
RECURSIVE BMulSmallC(_, _, _, _)
BMulSmallC(a, k, i, c) ==
    IF i > Len(a) THEN (IF c = 0 THEN << >> ELSE <<c>>)
    ELSE LET s == a[i] * k + c
         IN  <<s % Base>> \o BMulSmallC(a, k, i + 1, s \div Base)

BMulSmall(a, k) == IF k = 0 THEN << >> ELSE BMulSmallC(a, k, 1, 0)

BShlLimbs(a, k) == IF a = << >> THEN a ELSE [i \in 1..k |-> 0] \o a

RECURSIVE BMulFrom(_, _, _)
BMulFrom(a, b, j) ==
    IF j > Len(b) THEN << >>
    ELSE LET rest == BMulFrom(a, b, j + 1)
             row  == BShlLimbs(BMulSmall(a, b[j]), j - 1)
         IN  IF rest = << >> THEN row ELSE BAdd(row, rest)

BMul(a, b) == BMulFrom(a, b, 1)

\* a * 2^n
BShl(a, n) == BShlLimbs(BMulSmall(a, 2 ^ (n % LimbBits)), n \div LimbBits)

\* floor(a / k) for 0 < k <= Base, from the top limb down; r is the running remainder
RECURSIVE BDivSmallFrom(_, _, _, _)
BDivSmallFrom(a, k, i, r) ==
    IF i = 0 THEN << >>
    ELSE LET t == r * Base + a[i]
         IN  BDivSmallFrom(a, k, i - 1, t % k) \o <<t \div k>>

BDivSmall(a, k) == BNorm(BDivSmallFrom(a, k, Len(a), 0))

\* floor(a / 2^n)
BShr(a, n) ==
    LET k == n \div LimbBits
    IN  IF k >= Len(a) THEN << >>
        ELSE BDivSmall(SubSeq(a, k + 1, Len(a)), 2 ^ (n % LimbBits))

RECURSIVE IntBitLen(_)
IntBitLen(n) == IF n = 0 THEN 0 ELSE 1 + IntBitLen(n \div 2)

BBitLen(a) == IF a = << >> THEN 0 ELSE LimbBits * (Len(a) - 1) + IntBitLen(a[Len(a)])

\* bit i of a, bit 0 the lowest
BBit(a, i) == (Limb(a, i \div LimbBits + 1) \div 2 ^ (i % LimbBits)) % 2

\* a mod 2^n = 0
BLowZero(a, n) ==
    /\ \A i \in 1..(n \div LimbBits) : Limb(a, i) = 0
    /\ Limb(a, n \div LimbBits + 1) % 2 ^ (n % LimbBits) = 0

BOdd(a) == a # << >> /\ a[1] % 2 = 1


(***************************************************************************)
(* binary64 values.  Finite: [k |-> "fin", s, m, e] with s the sign bit,   *)
(* m = << >> (zero, e = 0) or 2^52 <= m < 2^53, value (-1)^s * m * 2^e.    *)
(* Two values are the same double exactly when the records are equal.      *)
(***************************************************************************)
Precision == 53
MaxExponent == 1023

NaN == [k |-> "nan", s |-> 0, m |-> << >>, e |-> 0]
Inf(s) == [k |-> "inf", s |-> s, m |-> << >>, e |-> 0]
Zero(s) == [k |-> "fin", s |-> s, m |-> << >>, e |-> 0]

IsNaN(x) == x.k = "nan"
IsInf(x) == x.k = "inf"
IsFinite(x) == x.k = "fin"
IsZero(x) == x.k = "fin" /\ x.m = << >>

Xor(s, t) == (s + t) % 2

\* the double (-1)^s * m * 2^e for 2^52 <= m < 2^53, infinite beyond the largest double
Pack(s, m, e) ==
    IF e + Precision - 1 > MaxExponent THEN Inf(s)
    ELSE [k |-> "fin", s |-> s, m |-> m, e |-> e]

\* q * 2^e for 2^52 <= q <= 2^53
Renorm(s, q, e) ==
    IF BBitLen(q) > Precision THEN Pack(s, BShr(q, 1), e + 1) ELSE Pack(s, q, e)

\* q * 2^e rounded up when the cut-off part is above one half (half and low),
\* or is one half and q is odd
RoundUp(s, q, e, half, low) ==
    Renorm(s, IF half /\ (low \/ BOdd(q)) THEN BAdd(q, <<1>>) ELSE q, e)

\* M of more than Precision bits, its sh low bits cut off
RoundCut(s, M, E, sticky, sh) ==
    RoundUp(s, BShr(M, sh), E + sh, BBit(M, sh - 1) = 1, sticky \/ ~BLowZero(M, sh - 1))

\* M of L bits
RoundLen(s, M, E, sticky, L) ==
    IF L = 0 THEN Zero(s)
    ELSE IF L <= Precision THEN Pack(s, BShl(M, Precision - L), E - (Precision - L))
    ELSE RoundCut(s, M, E, sticky, L - Precision)

\* The double nearest to (-1)^s * (M + f) * 2^E, ties to even, where 0 < f < 1
\* when sticky and f = 0 otherwise.  Results beyond the largest double are
\* infinite; the subnormal range is not reached by the inputs of this model.
RoundPack(s, M, E, sticky) == RoundLen(s, M, E, sticky, BBitLen(M))

\* Number(n) for an integer n
FromInt(n) == RoundPack(IF n < 0 THEN 1 ELSE 0, BFromInt(IF n < 0 THEN -n ELSE n), 0, FALSE)

FNeg(x) == IF IsNaN(x) THEN x ELSE [x EXCEPT !.s = 1 - x.s]

\* (-1)^xs * A * 2^e + (-1)^ys * B * 2^e for A, B > 0, where c is BCmp(A, B)
AddSigned(xs, A, ys, B, e, c) ==
    IF xs # ys /\ c = 0 THEN Zero(0)
    ELSE RoundPack(IF xs = ys \/ c > 0 THEN xs ELSE ys,
                   IF xs = ys THEN BAdd(A, B) ELSE IF c > 0 THEN BSub(A, B) ELSE BSub(B, A),
                   e, FALSE)

AddAligned(xs, A, ys, B, e) == AddSigned(xs, A, ys, B, e, BCmp(A, B))

\* x + y
FAdd(x, y) ==
    IF IsNaN(x) \/ IsNaN(y) THEN NaN
    ELSE IF IsInf(x) THEN (IF IsInf(y) /\ y.s # x.s THEN NaN ELSE x)
    ELSE IF IsInf(y) THEN y
    ELSE IF IsZero(x) /\ IsZero(y) THEN Zero(IF x.s = 1 /\ y.s = 1 THEN 1 ELSE 0)
    ELSE IF IsZero(x) THEN y
    ELSE IF IsZero(y) THEN x
    ELSE LET e == IF x.e < y.e THEN x.e ELSE y.e
         IN  AddAligned(x.s, BShl(x.m, x.e - e), y.s, BShl(y.m, y.e - e), e)

\* x - y
FSub(x, y) == FAdd(x, FNeg(y))

\* x * y
FMul(x, y) ==
    IF IsNaN(x) \/ IsNaN(y) THEN NaN
    ELSE IF IsInf(x) \/ IsInf(y)
    THEN (IF IsZero(x) \/ IsZero(y) THEN NaN ELSE Inf(Xor(x.s, y.s)))
    ELSE IF IsZero(x) \/ IsZero(y) THEN Zero(Xor(x.s, y.s))
    ELSE RoundPack(Xor(x.s, y.s), BMul(x.m, y.m), x.e + y.e, FALSE)

\* k further quotient bits of r / b for r < b, appended to the bits q:
\* <<quotient bits, remainder>>
RECURSIVE DivBits(_, _, _, _)
RECURSIVE DivStep(_, _, _, _)
DivStep(r2, b, k, q) ==
    IF BCmp(r2, b) >= 0 THEN DivBits(BSub(r2, b), b, k - 1, 2 * q + 1)
    ELSE DivBits(r2, b, k - 1, 2 * q)

DivBits(r, b, k, q) == IF k = 0 THEN <<q, r>> ELSE DivStep(BMulSmall(r, 2), b, k, q)

\* n further quotient limbs of r / b for r < b, most significant first:
\* <<quotient, remainder>>
RECURSIVE DivLimbs(_, _, _)
RECURSIVE DivLimb(_, _, _)
DivLimb(d, b, n) == LET rest == DivLimbs(d[2], b, n - 1) IN <<rest[1] \o <<d[1]>>, rest[2]>>

DivLimbs(r, b, n) ==
    IF n = 0 THEN <<<< >>, r>>
    ELSE IF r = << >> THEN <<[i \in 1..n |-> 0], r>>
    ELSE DivLimb(DivBits(r, b, LimbBits, 0), b, n)

QuotientLimbs == 4

\* the quotient limbs qr[1] below the leading bit top, remainder qr[2]
DivRound(s, qr, top, e) == RoundPack(s, BNorm(qr[1] \o <<top>>), e, qr[2] # << >>)

\* a / b for significands a, b, where ge is a >= b
DivSignificands(s, a, b, e, ge) ==
    DivRound(s, DivLimbs(IF ge THEN BSub(a, b) ELSE a, b, QuotientLimbs), IF ge THEN 1 ELSE 0, e)

\* x / y
FDiv(x, y) ==
    IF IsNaN(x) \/ IsNaN(y) THEN NaN
    ELSE IF IsInf(x) THEN (IF IsInf(y) THEN NaN ELSE Inf(Xor(x.s, y.s)))
    ELSE IF IsInf(y) THEN Zero(Xor(x.s, y.s))
    ELSE IF IsZero(y) THEN (IF IsZero(x) THEN NaN ELSE Inf(Xor(x.s, y.s)))
    ELSE IF IsZero(x) THEN Zero(Xor(x.s, y.s))
    ELSE DivSignificands(Xor(x.s, y.s), x.m, y.m, x.e - y.e - QuotientLimbs * LimbBits,
                         BCmp(x.m, y.m) >= 0)

\* |a| < |b|
AbsLt(a, b) ==
    IF IsInf(a) THEN FALSE
    ELSE IF IsInf(b) THEN TRUE
    ELSE IF IsZero(b) THEN FALSE
    ELSE IF IsZero(a) THEN TRUE
    ELSE a.e < b.e \/ (a.e = b.e /\ BCmp(a.m, b.m) < 0)

\* x < y  (false when either is NaN)
FLt(x, y) ==
    IF IsNaN(x) \/ IsNaN(y) THEN FALSE
    ELSE IF IsZero(x) /\ IsZero(y) THEN FALSE
    ELSE IF x.s # y.s THEN x.s = 1
    ELSE AbsLt(IF x.s = 0 THEN x ELSE y, IF x.s = 0 THEN y ELSE x)

\* x === y
FEq(x, y) ==
    /\ ~IsNaN(x) /\ ~IsNaN(y)
    /\ (x = y \/ (IsZero(x) /\ IsZero(y)))

\* x <= y,  x > y
FLeq(x, y) == FLt(x, y) \/ FEq(x, y)
FGt(x, y) == FLt(y, x)

\* Math.min(x, y)
FMin(x, y) ==
    IF IsNaN(x) \/ IsNaN(y) THEN NaN
    ELSE IF IsZero(x) /\ IsZero(y) THEN Zero(IF x.s = 1 \/ y.s = 1 THEN 1 ELSE 0)
    ELSE IF FLt(y, x) THEN y ELSE x


(***************************************************************************)
(* Decimal numerals.  An input value is written as the numeral n / d with  *)
(* d a power of ten (6.5 is Dec(65, 10)); Num is the Number it denotes,    *)
(* as parseFloat and a numeric literal of the source denote it: the        *)
(* correctly rounded quotient of the two integers.                         *)
(***************************************************************************)
Dec(n, d) == [n |-> n, d |-> d]

Num(x) == FDiv(FromInt(x.n), FromInt(x.d))

\* the fraction digits of r / d, r < d, d a power of ten
RECURSIVE FracDigits(_, _)
FracDigits(r, d) ==
    IF d = 1 THEN ""
    ELSE ToString(r \div (d \div 10)) \o FracDigits(r % (d \div 10), d \div 10)

DecToString(n, d) ==
    ToString(n \div d) \o (IF d = 1 THEN "" ELSE "." \o FracDigits(n % d, d))

\* the integers nearest to P * 2^e
Nearest(P, e) ==
    IF e >= 0 THEN {BToInt(BShl(P, e))}
    ELSE {BToInt(BShr(P, -e)), BToInt(BShr(P, -e)) + 1}

\* The integers nearest to x * d, for a finite x with 0 < x < 2^31 / d
NearestInts(x, d) == Nearest(BMulSmall(x.m, d), x.e)

MaxFractionDigits == 3

\* The shortest decimal numeral n / d that denotes x > 0, d a power of ten
\* from d up.  Numerals of up to MaxFractionDigits fraction digits are tried,
\* which covers every Number the model formats.
RECURSIVE Shortest(_, _)
RECURSIVE ShortestOf(_, _, _)
ShortestOf(x, d, fits) ==
    IF fits # {} THEN DecToString(CHOOSE n \in fits : TRUE, d)
    ELSE IF d < 10 ^ MaxFractionDigits THEN Shortest(x, 10 * d)
    ELSE "?"

Shortest(x, d) == ShortestOf(x, d, {n \in NearestInts(x, d) : Num(Dec(n, d)) = x})

\* Number::toString, as `${x}` applies it
NumberToString(x) ==
    IF IsNaN(x) THEN "NaN"
    ELSE IF IsInf(x) THEN (IF x.s = 1 THEN "-Infinity" ELSE "Infinity")
    ELSE IF IsZero(x) THEN "0"
    ELSE (IF x.s = 1 THEN "-" ELSE "") \o Shortest([x EXCEPT !.s = 0], 1)

\* the natural number a Number is, for an integral 0 <= x < 2^31
FToNat(x) == IF IsZero(x) THEN 0
             ELSE IF x.e >= 0 THEN BToInt(BShl(x.m, x.e))
             ELSE BToInt(BShr(x.m, -x.e))

(***************************************************************************)
(* Math.pow(x, y) for a finite x and an integral y >= 0.  ECMAScript leaves *)
(* the result implementation-approximated: when the exact power is not a   *)
(* double the engine returns one of its two neighbours.  The power is      *)
(* computed by squaring on significands cut to WideLimbs limbs (a relative *)
(* error below 2^-90 over the exponents of this model).                    *)
(***************************************************************************)
WideLimbs == 8

\* [m, e, inexact]: m * 2^e cut from below to WideLimbs limbs
WCut(M, E, inexact) ==
    LET drop == IF Len(M) > WideLimbs THEN Len(M) - WideLimbs ELSE 0
    IN  [m |-> SubSeq(M, drop + 1, Len(M)),
         e |-> E + LimbBits * drop,
         inexact |-> inexact \/ \E i \in 1..drop : M[i] # 0]

WMul(a, b) ==
    IF a.m = << >> \/ b.m = << >> THEN [m |-> << >>, e |-> 0, inexact |-> FALSE]
    ELSE WCut(BMul(a.m, b.m), a.e + b.e, a.inexact \/ b.inexact)

\* a^n by squaring, from the top bit of n down; acc is a^(n \div 2^k)
RECURSIVE WPowFrom(_, _, _, _)
RECURSIVE WPowNext(_, _, _, _)
RECURSIVE WPowBit(_, _, _, _)
WPowNext(a, n, k, p) == IF p.m = << >> THEN p ELSE WPowFrom(a, n, k - 1, p)

WPowBit(a, n, k, sq) ==
    WPowNext(a, n, k, IF (n \div 2 ^ (k - 1)) % 2 = 1 THEN WMul(sq, a) ELSE sq)

WPowFrom(a, n, k, acc) == IF k = 0 THEN acc ELSE WPowBit(a, n, k, WMul(acc, acc))

WPow(a, n) == WPowFrom(a, n, IntBitLen(n), [m |-> <<1>>, e |-> 0, inexact |-> FALSE])

\* q * 2^e, or the double above it
PowPick(s, q, e, up) == RoundPack(s, IF up THEN BAdd(q, <<1>>) ELSE q, e, FALSE)

\* the power w, its sh low bits cut off; rounding is "below" or "above": the
\* neighbour the engine returns when the power is not a double
PowCut(s, w, rounding, sh) ==
    PowPick(s, BShr(w.m, sh), w.e + sh,
            (w.inexact \/ ~BLowZero(w.m, sh)) /\ rounding = "above")

PowRound(s, w, rounding, L) == PowCut(s, w, rounding, IF L > Precision THEN L - Precision ELSE 0)

PowWide(s, w, rounding) == PowRound(s, w, rounding, BBitLen(w.m))

\* x^n for a natural number n
PowNat(x, n, rounding) ==
    IF n = 0 THEN FromInt(1)
    ELSE IF IsNaN(x) THEN NaN
    ELSE IF IsInf(x) THEN Inf(IF n % 2 = 1 THEN x.s ELSE 0)
    ELSE IF IsZero(x) THEN Zero(IF n % 2 = 1 THEN x.s ELSE 0)
    ELSE PowWide(IF n % 2 = 1 THEN x.s ELSE 0,
                 WPow([m |-> x.m, e |-> x.e, inexact |-> FALSE], n), rounding)

MathPow(x, y, rounding) == PowNat(x, FToNat(y), rounding)

(***************************************************************************)
(* calculator.js                                                           *)
(***************************************************************************)
FilingStatus == [SINGLE |-> "single", MARRIED_FILING_JOINTLY |-> "married"]

\* a parameter the caller left out
Undefined == [k |-> "undefined", s |-> 0, m |-> << >>, e |-> 0]

\* the brackets with the married thresholds one place too low: a mutation
FederalTaxRateShifted(income, filingStatus) ==
    IF filingStatus = FilingStatus.SINGLE
    THEN IF FLeq(income, FromInt(11000)) THEN Num(Dec(10, 100))
         ELSE IF FLeq(income, FromInt(44725)) THEN Num(Dec(12, 100))
         ELSE IF FLeq(income, FromInt(95375)) THEN Num(Dec(22, 100))
         ELSE IF FLeq(income, FromInt(182050)) THEN Num(Dec(24, 100))
         ELSE IF FLeq(income, FromInt(231250)) THEN Num(Dec(32, 100))
         ELSE IF FLeq(income, FromInt(578125)) THEN Num(Dec(35, 100))
         ELSE Num(Dec(37, 100))
    ELSE IF FLeq(income, FromInt(2200)) THEN Num(Dec(10, 100))
         ELSE IF FLeq(income, FromInt(8945)) THEN Num(Dec(12, 100))
         ELSE IF FLeq(income, FromInt(19075)) THEN Num(Dec(22, 100))
         ELSE IF FLeq(income, FromInt(36420)) THEN Num(Dec(24, 100))
         ELSE IF FLeq(income, FromInt(46250)) THEN Num(Dec(32, 100))
         ELSE IF FLeq(income, FromInt(69375)) THEN Num(Dec(35, 100))
         ELSE Num(Dec(37, 100))

getFederalTaxRate(income, filingStatus) ==
    IF filingStatus = FilingStatus.SINGLE
    THEN IF FLeq(income, FromInt(11000)) THEN Num(Dec(10, 100))
         ELSE IF FLeq(income, FromInt(44725)) THEN Num(Dec(12, 100))
         ELSE IF FLeq(income, FromInt(95375)) THEN Num(Dec(22, 100))
         ELSE IF FLeq(income, FromInt(182050)) THEN Num(Dec(24, 100))
         ELSE IF FLeq(income, FromInt(231250)) THEN Num(Dec(32, 100))
         ELSE IF FLeq(income, FromInt(578125)) THEN Num(Dec(35, 100))
         ELSE Num(Dec(37, 100))
    ELSE IF FLeq(income, FromInt(22000)) THEN Num(Dec(10, 100))
         ELSE IF FLeq(income, FromInt(89450)) THEN Num(Dec(12, 100))
         ELSE IF FLeq(income, FromInt(190750)) THEN Num(Dec(22, 100))
         ELSE IF FLeq(income, FromInt(364200)) THEN Num(Dec(24, 100))
         ELSE IF FLeq(income, FromInt(462500)) THEN Num(Dec(32, 100))
         ELSE IF FLeq(income, FromInt(693750)) THEN Num(Dec(35, 100))
         ELSE Num(Dec(37, 100))

getTaxRates(income, filingStatus, propertyTaxRate) ==
    LET federalRate == getFederalTaxRate(income, filingStatus)
    IN  [federal |-> federalRate, state |-> Zero(0), property |-> propertyTaxRate]

\* validation that returns at the first warning: a mutation
ValidateFirstOnly(housePrice, userIncome, mortgageRate, homeAppreciation, downPayment) ==
    IF FLeq(housePrice, Zero(0)) THEN <<"House price must be positive">>
    ELSE IF FLeq(userIncome, Zero(0)) THEN <<"User income must be positive">>
    ELSE IF FLt(mortgageRate, Zero(0)) \/ FGt(mortgageRate, FromInt(20))
    THEN <<"Mortgage rate seems unrealistic (" \o NumberToString(mortgageRate) \o "%)">>
    ELSE IF FLt(homeAppreciation, FromInt(-10)) \/ FGt(homeAppreciation, FromInt(20))
    THEN <<"Home appreciation rate seems extreme (" \o NumberToString(homeAppreciation) \o "%)">>
    ELSE IF FLt(downPayment, FromInt(3)) \/ FGt(downPayment, FromInt(50))
    THEN <<"Down payment percentage seems unusual (" \o NumberToString(downPayment) \o "%)">>
    ELSE IF FGt(housePrice, FMul(userIncome, FromInt(10)))
    THEN <<"House price is more than 10x annual income - may not be affordable">>
    ELSE << >>

\* validation with the range ends excluded: a mutation
ValidateClosedRanges(housePrice, userIncome, mortgageRate, homeAppreciation, downPayment) ==
    (IF FLeq(housePrice, Zero(0)) THEN <<"House price must be positive">> ELSE << >>)
    \o (IF FLeq(userIncome, Zero(0)) THEN <<"User income must be positive">> ELSE << >>)
    \o (IF FLeq(mortgageRate, Zero(0)) \/ FLeq(FromInt(20), mortgageRate)
        THEN <<"Mortgage rate seems unrealistic (" \o NumberToString(mortgageRate) \o "%)">>
        ELSE << >>)
    \o (IF FLeq(homeAppreciation, FromInt(-10)) \/ FLeq(FromInt(20), homeAppreciation)
        THEN <<"Home appreciation rate seems extreme (" \o NumberToString(homeAppreciation) \o "%)">>
        ELSE << >>)
    \o (IF FLeq(downPayment, FromInt(3)) \/ FLeq(FromInt(50), downPayment)
        THEN <<"Down payment percentage seems unusual (" \o NumberToString(downPayment) \o "%)">>
        ELSE << >>)
    \o (IF FLeq(FMul(userIncome, FromInt(10)), housePrice)
        THEN <<"House price is more than 10x annual income - may not be affordable">>
        ELSE << >>)

\* warnings.push appends when its condition holds
validateInputs(housePrice, userIncome, mortgageRate, homeAppreciation, downPayment) ==
    (IF FLeq(housePrice, Zero(0)) THEN <<"House price must be positive">> ELSE << >>)
    \o (IF FLeq(userIncome, Zero(0)) THEN <<"User income must be positive">> ELSE << >>)
    \o (IF FLt(mortgageRate, Zero(0)) \/ FGt(mortgageRate, FromInt(20))
        THEN <<"Mortgage rate seems unrealistic (" \o NumberToString(mortgageRate) \o "%)">>
        ELSE << >>)
    \o (IF FLt(homeAppreciation, FromInt(-10)) \/ FGt(homeAppreciation, FromInt(20))
        THEN <<"Home appreciation rate seems extreme (" \o NumberToString(homeAppreciation) \o "%)">>
        ELSE << >>)
    \o (IF FLt(downPayment, FromInt(3)) \/ FGt(downPayment, FromInt(50))
        THEN <<"Down payment percentage seems unusual (" \o NumberToString(downPayment) \o "%)">>
        ELSE << >>)
    \o (IF FGt(housePrice, FMul(userIncome, FromInt(10)))
        THEN <<"House price is more than 10x annual income - may not be affordable">>
        ELSE << >>)

\* The amortization formula.  Math.pow is a function of its arguments, so its
\* two calls return the same Number, pow.
Amortize(loanAmount, monthlyRate, pow) ==
    FDiv(FMul(loanAmount, FMul(monthlyRate, pow)), FSub(pow, FromInt(1)))

\* the payment for a monthly rate and a number of payments
Payment(loanAmount, monthlyRate, numPayments, rounding) ==
    IF FEq(monthlyRate, Zero(0))
    THEN FDiv(loanAmount, numPayments)
    ELSE Amortize(loanAmount, monthlyRate,
                  MathPow(FAdd(FromInt(1), monthlyRate), numPayments, rounding))

\* the payment without the zero-rate branch: a mutation
AmortizeAlways(loanAmount, annualRate, years, rounding) ==
    Amortize(loanAmount, FDiv(annualRate, FromInt(12)),
             MathPow(FAdd(FromInt(1), FDiv(annualRate, FromInt(12))),
                     FMul(IF years.k = "undefined" THEN FromInt(30) ELSE years, FromInt(12)),
                     rounding))

\* rounding is the neighbour Math.pow returns in this call
calculateMonthlyMortgagePayment(loanAmount, annualRate, years, rounding) ==
    Payment(loanAmount, FDiv(annualRate, FromInt(12)),
            FMul(IF years.k = "undefined" THEN FromInt(30) ELSE years, FromInt(12)), rounding)

\* a destructured property, with its default when the caller left it out
Get(p, f, default) == IF f \in DOMAIN p THEN p[f] ELSE default

\* the deduction without its cap: a mutation
Uncapped(propertyTax) == propertyTax

PropertyTaxDeduction(propertyTax) == FMin(propertyTax, FromInt(10000))

\* the monthly payment without the insurance: a mutation
MonthlyPaymentNoInsurance(annualMortgagePayment, propertyTax, insurance, maintenance) ==
    FDiv(FAdd(FAdd(annualMortgagePayment, propertyTax), maintenance), FromInt(12))

MonthlyPayment(annualMortgagePayment, propertyTax, insurance, maintenance) ==
    FDiv(FAdd(FAdd(FAdd(annualMortgagePayment, propertyTax), insurance), maintenance), FromInt(12))

\* the benefits added to the costs: a mutation
NetCostSum(totalAnnualCosts, totalAnnualBenefits) == FAdd(totalAnnualCosts, totalAnnualBenefits)

TotalNetCost(totalAnnualCosts, totalAnnualBenefits) == FSub(totalAnnualCosts, totalAnnualBenefits)

(***************************************************************************)
(* calculateHomeNetCost binds its constants block by block.  Each operator *)
(* below is one block of the source: it takes the record c of the          *)
(* constants bound so far and returns c with the constants of its block.   *)
(***************************************************************************)
\* the destructuring of params with its defaults
Destructure(params) ==
    [housePrice |-> params.housePrice,
     userIncome |-> params.userIncome,
     mortgageRate |-> params.mortgageRate,
     homeAppreciation |-> params.homeAppreciation,
     filingStatus |-> params.filingStatus,
     insurancePercent |-> Get(params, "insurancePercent", Num(Dec(5, 1000))),
     downPaymentPercent |-> Get(params, "downPaymentPercent", Num(Dec(20, 100))),
     closingCostsPercent |-> Get(params, "closingCostsPercent", Num(Dec(3, 100))),
     opportunityCostRate |-> Get(params, "opportunityCostRate", Num(Dec(8, 100))),
     mortgageYears |-> Get(params, "mortgageYears", FromInt(30)),
     maintenanceCostRate |-> Get(params, "maintenanceCostRate", Num(Dec(1, 100))),
     propertyTaxRate |-> Get(params, "propertyTaxRate", Num(Dec(1, 100)))]

\* Convert percentages
ConvertPercentages(c) ==
    c @@ [mortgageRateDecimal |-> FDiv(c.mortgageRate, FromInt(100)),
          homeAppreciationDecimal |-> FDiv(c.homeAppreciation, FromInt(100)),
          downPaymentDecimal |-> FDiv(c.downPaymentPercent, FromInt(100)),
          opportunityCostDecimal |-> FDiv(c.opportunityCostRate, FromInt(100)),
          maintenanceCostRateDecimal |-> FDiv(c.maintenanceCostRate, FromInt(100)),
          propertyTaxRateDecimal |-> FDiv(c.propertyTaxRate, FromInt(100))]

\* the warnings and the tax rates
Validate(c) ==
    c @@ [warnings |-> validateInputs(c.housePrice, c.userIncome, c.mortgageRate,
                                      c.homeAppreciation, c.downPaymentPercent),
          taxRates |-> getTaxRates(c.userIncome, c.filingStatus, c.propertyTaxRateDecimal)]

\* Upfront costs
UpfrontCosts(c) ==
    LET downPayment == FMul(c.housePrice, c.downPaymentDecimal)
        closingCosts == FMul(c.housePrice, c.closingCostsPercent)
        totalUpfrontCosts == FAdd(downPayment, closingCosts)
    IN  c @@ [totalTaxRate |-> FAdd(c.taxRates.federal, c.taxRates.state),
              downPayment |-> downPayment,
              closingCosts |-> closingCosts,
              totalUpfrontCosts |-> totalUpfrontCosts,
              opportunityCostUpfront |-> FMul(totalUpfrontCosts, c.opportunityCostDecimal)]

\* Mortgage calculations: the loan and its monthly payment
MortgagePayment(c, rounding) ==
    LET loanAmount == FSub(c.housePrice, c.downPayment)
    IN  c @@ [loanAmount |-> loanAmount,
              monthlyMortgagePayment |->
                  calculateMonthlyMortgagePayment(loanAmount, c.mortgageRateDecimal,
                                                  c.mortgageYears, rounding)]

\* Mortgage calculations: the annual payment and the opportunity cost
MortgageCosts(c) ==
    LET annualMortgagePayment == FMul(c.monthlyMortgagePayment, FromInt(12))
        opportunityCostMortgagePayments == FMul(annualMortgagePayment, c.opportunityCostDecimal)
    IN  c @@ [annualMortgagePayment |-> annualMortgagePayment,
              opportunityCostMortgagePayments |-> opportunityCostMortgagePayments,
              totalOpportunityCost |-> FAdd(c.opportunityCostUpfront, opportunityCostMortgagePayments)]

\* Other annual costs
OtherAnnualCosts(c) ==
    LET propertyTax == FMul(c.housePrice, c.taxRates.property)
    IN  c @@ [propertyTax |-> propertyTax,
              propertyTaxDeduction |-> PropertyTaxDeduction(propertyTax),
              insurance |-> FMul(c.housePrice, c.insurancePercent),
              maintenance |-> FMul(c.housePrice, c.maintenanceCostRateDecimal)]

\* Tax benefits
TaxBenefits(c) ==
    LET mortgagePrincipalForDeduction == FMin(c.loanAmount, FromInt(750000))
        annualMortgageInterest == FMul(mortgagePrincipalForDeduction, c.mortgageRateDecimal)
    IN  c @@ [mortgagePrincipalForDeduction |-> mortgagePrincipalForDeduction,
              annualMortgageInterest |-> annualMortgageInterest,
              mortgageInterestTaxSavings |-> FMul(annualMortgageInterest, c.totalTaxRate),
              propertyTaxTaxSavings |-> FMul(c.propertyTaxDeduction, c.totalTaxRate)]

\* Home appreciation
HomeAppreciation(c) ==
    c @@ [homeAppreciationValue |-> FMul(c.housePrice, c.homeAppreciationDecimal)]

\* Net cost calculation
NetCost(c) ==
    LET totalAnnualCosts ==
            FAdd(FAdd(FAdd(FAdd(c.annualMortgagePayment, c.propertyTax), c.insurance),
                      c.maintenance), c.totalOpportunityCost)
        totalAnnualBenefits ==
            FAdd(FAdd(c.homeAppreciationValue, c.mortgageInterestTaxSavings),
                 c.propertyTaxTaxSavings)
    IN  c @@ [totalAnnualCosts |-> totalAnnualCosts,
              totalAnnualBenefits |-> totalAnnualBenefits,
              totalNetCost |-> TotalNetCost(totalAnnualCosts, totalAnnualBenefits)]

\* Affordability analysis: the monthly figures
MonthlyFigures(c) ==
    c @@ [monthlyPayment |-> MonthlyPayment(c.annualMortgagePayment, c.propertyTax,
                                            c.insurance, c.maintenance),
          monthlyIncome |-> FDiv(c.userIncome, FromInt(12))]

\* Affordability analysis: the 28% rule
Affordability(c) ==
    LET frontEndRatio == FDiv(c.monthlyPayment, c.monthlyIncome)
    IN  c @@ [frontEndRatio |-> frontEndRatio,
              isAffordable |-> FLeq(frontEndRatio, Num(Dec(28, 100)))]

\* the constants calculateHomeNetCost has bound when it returns, lines 64-119
Locals(params, rounding) ==
    Affordability(MonthlyFigures(NetCost(HomeAppreciation(TaxBenefits(OtherAnnualCosts(
        MortgageCosts(MortgagePayment(UpfrontCosts(Validate(ConvertPercentages(
            Destructure(params)))), rounding))))))))

\* the object calculateHomeNetCost returns, lines 121-146
Return(l) ==
    [totalNetCost |-> l.totalNetCost,
     monthlyPayment |-> l.monthlyPayment,
     frontEndRatio |-> l.frontEndRatio,
     isAffordable |-> l.isAffordable,
     totalTaxRate |-> l.totalTaxRate,
     breakdown |->
        [annualMortgagePayment |-> l.annualMortgagePayment,
         propertyTax |-> l.propertyTax,
         insurance |-> l.insurance,
         maintenance |-> l.maintenance,
         opportunityCostUpfront |-> l.opportunityCostUpfront,
         opportunityCostMortgagePayments |-> l.opportunityCostMortgagePayments,
         totalOpportunityCost |-> l.totalOpportunityCost,
         homeAppreciationValue |-> l.homeAppreciationValue,
         mortgageInterestTaxSavings |-> l.mortgageInterestTaxSavings,
         propertyTaxTaxSavings |-> l.propertyTaxTaxSavings,
         downPayment |-> l.downPayment,
         closingCosts |-> l.closingCosts,
         totalUpfrontCosts |-> l.totalUpfrontCosts,
         monthlyMortgagePayment |-> l.monthlyMortgagePayment,
         federalTaxRate |-> l.taxRates.federal,
         stateTaxRate |-> l.taxRates.state],
     warnings |-> l.warnings]

\* a calculation that throws on a warning: a mutation
ReturnUnlessWarned(params, rounding) ==
    LET l == Locals(params, rounding)
    IN  IF l.warnings # << >> THEN [error |-> "invalid input"] ELSE Return(l)

calculateHomeNetCost(params, rounding) == Return(Locals(params, rounding))


(***************************************************************************)
(* The calls.  A behaviour draws the arguments of one or two calls and     *)
(* makes the calls in order; a call runs to its return in one step.        *)
(***************************************************************************)
VARIABLES
    args,      \* call number -> the arguments of the call
    rounding,  \* call number -> the neighbour Math.pow returned in the call
    locals,    \* call number -> the constants calculateHomeNetCost bound
    result     \* call number -> the value the call returned

vars == <<args, rounding, locals, result>>

Roundings == {"below", "above"}

\* the next call to make
Pending(i) == i \in DOMAIN args /\ i \notin DOMAIN result /\ \A j \in 1..(i - 1) : j \in DOMAIN result

NoCalls == rounding = << >> /\ locals = << >> /\ result = << >>

MaxPriceSteps == 5
MaxIncomeSteps == 1

HousePrices == {FromInt(250000 * k) : k \in 0..MaxPriceSteps}
Incomes == {FromInt(50000 * k) : k \in -1..MaxIncomeSteps}

(***************************************************************************)
(* calculateHomeNetCost(params)                                            *)
(***************************************************************************)
\* the properties every caller supplies
RequiredFields ==
    [housePrice : HousePrices,
     userIncome : Incomes,
     mortgageRate : {Zero(0), Num(Dec(65, 10))},
     homeAppreciation : {FromInt(3)},
     filingStatus : {FilingStatus.SINGLE, FilingStatus.MARRIED_FILING_JOINTLY}]

\* the properties the submit handler adds, lines 231-242
FormFields ==
    [propertyTaxRate |-> Num(Dec(12, 10)),
     downPaymentPercent |-> FromInt(20),
     opportunityCostRate |-> FromInt(8),
     maintenanceCostRate |-> FromInt(1)]

\* the remaining optional properties
OtherFields ==
    [insurancePercent |-> Num(Dec(5, 10)),
     closingCostsPercent |-> FromInt(3),
     mortgageYears |-> FromInt(15)]

Params ==
    RequiredFields
    \cup {p @@ FormFields : p \in RequiredFields}
    \cup {p @@ FormFields @@ OtherFields : p \in RequiredFields}

Init == args \in {<<p>> : p \in Params} /\ NoCalls

CalculateHomeNetCost(i, r) ==
    /\ Pending(i)
    /\ rounding' = rounding @@ (i :> r)
    /\ locals' = locals @@ (i :> Locals(args[i], r))
    /\ result' = result @@ (i :> calculateHomeNetCost(args[i], r))
    /\ UNCHANGED args

Next == \E i \in DOMAIN args, r \in Roundings : CalculateHomeNetCost(i, r)

Spec == Init /\ [][Next]_vars


Range(seq) == {seq[i] : i \in DOMAIN seq}

\* the costs and the benefits of a returned breakdown
BreakdownCosts(b) ==
    FAdd(FAdd(FAdd(FAdd(b.annualMortgagePayment, b.propertyTax), b.insurance), b.maintenance),
         b.totalOpportunityCost)

BreakdownBenefits(b) ==
    FAdd(FAdd(b.homeAppreciationValue, b.mortgageInterestTaxSavings), b.propertyTaxTaxSavings)

\* C1: in every result calculateHomeNetCost returns, totalNetCost is the costs
\* of the returned breakdown (annual mortgage payment + property tax + insurance
\* + maintenance + total opportunity cost, the latter the sum of its two parts)
\* minus its benefits (appreciation + the two tax savings), as the same Number.
TotalNetCostIsCostsMinusBenefits ==
    \A i \in DOMAIN result :
        /\ result[i].breakdown.totalOpportunityCost =
               FAdd(result[i].breakdown.opportunityCostUpfront,
                    result[i].breakdown.opportunityCostMortgagePayments)
        /\ result[i].totalNetCost =
               FSub(BreakdownCosts(result[i].breakdown), BreakdownBenefits(result[i].breakdown))

\* a result with non-zero costs and non-zero benefits of every kind
NetCostOfCostsAndBenefits ==
    \E i \in DOMAIN result :
        /\ IsFinite(result[i].totalNetCost)
        /\ FGt(result[i].breakdown.opportunityCostMortgagePayments, Zero(0))
        /\ FGt(result[i].breakdown.opportunityCostUpfront, Zero(0))
        /\ FGt(result[i].breakdown.mortgageInterestTaxSavings, Zero(0))
        /\ FGt(result[i].breakdown.propertyTaxTaxSavings, Zero(0))
        /\ FGt(result[i].breakdown.homeAppreciationValue, Zero(0))

\* C2: every percentage a caller supplies is divided by 100 before use:
\* closingCosts = housePrice * closingCostsPercent / 100, insurance =
\* housePrice * insurancePercent / 100, and likewise the down payment, the
\* maintenance, the property tax and the appreciation.
SuppliedPercentagesAreDividedBy100 ==
    \A i \in DOMAIN result :
        LET a == args[i]
            b == result[i].breakdown
            Of(percent) == FMul(a.housePrice, FDiv(percent, FromInt(100)))
        IN  /\ b.homeAppreciationValue = Of(a.homeAppreciation)
            /\ "downPaymentPercent" \in DOMAIN a => b.downPayment = Of(a.downPaymentPercent)
            /\ "maintenanceCostRate" \in DOMAIN a => b.maintenance = Of(a.maintenanceCostRate)
            /\ "propertyTaxRate" \in DOMAIN a => b.propertyTax = Of(a.propertyTaxRate)
            /\ "closingCostsPercent" \in DOMAIN a => b.closingCosts = Of(a.closingCostsPercent)
            /\ "insurancePercent" \in DOMAIN a => b.insurance = Of(a.insurancePercent)

\* C3: an omitted optional property gets its documented default: property tax
\* 1%, insurance 0.5%, maintenance 1%, down payment 20% and closing costs 3% of
\* the house price, and the default down payment draws no warning.
OmittedFieldsGetDocumentedDefaults ==
    \A i \in DOMAIN result :
        LET a == args[i]
            b == result[i].breakdown
            Of(n, d) == FMul(a.housePrice, Num(Dec(n, d)))
        IN  /\ "propertyTaxRate" \notin DOMAIN a => b.propertyTax = Of(1, 100)
            /\ "insurancePercent" \notin DOMAIN a => b.insurance = Of(5, 1000)
            /\ "maintenanceCostRate" \notin DOMAIN a => b.maintenance = Of(1, 100)
            /\ "closingCostsPercent" \notin DOMAIN a => b.closingCosts = Of(3, 100)
            /\ "downPaymentPercent" \notin DOMAIN a =>
                   /\ b.downPayment = Of(20, 100)
                   /\ "Down payment percentage seems unusual (0.2%)" \notin Range(result[i].warnings)

ResultFields ==
    {"totalNetCost", "monthlyPayment", "frontEndRatio", "isAffordable", "totalTaxRate",
     "breakdown", "warnings"}

BreakdownFields ==
    {"annualMortgagePayment", "propertyTax", "insurance", "maintenance",
     "opportunityCostUpfront", "opportunityCostMortgagePayments", "totalOpportunityCost",
     "homeAppreciationValue", "mortgageInterestTaxSavings", "propertyTaxTaxSavings",
     "downPayment", "closingCosts", "totalUpfrontCosts", "monthlyMortgagePayment",
     "federalTaxRate", "stateTaxRate"}

IsNumber(x) == x.k \in {"fin", "inf", "nan"}

\* C4: every call returns a full result, whatever warnings its input draws: the
\* five top-level fields, the 16 fields of the breakdown, all Numbers, and the
\* warnings of validateInputs; the fields are the ones the formulas give, the
\* warnings apart.
ValidationNeverAborts ==
    \A i \in DOMAIN result :
        /\ DOMAIN result[i] = ResultFields
        /\ DOMAIN result[i].breakdown = BreakdownFields
        /\ \A f \in BreakdownFields : IsNumber(result[i].breakdown[f])
        /\ \A f \in {"totalNetCost", "monthlyPayment", "frontEndRatio", "totalTaxRate"} :
               IsNumber(result[i][f])
        /\ result[i].isAffordable \in BOOLEAN
        /\ result[i].warnings =
               validateInputs(args[i].housePrice, args[i].userIncome, args[i].mortgageRate,
                              args[i].homeAppreciation,
                              Get(args[i], "downPaymentPercent", Num(Dec(20, 100))))
        /\ [result[i] EXCEPT !.warnings = << >>] =
               [Return(Locals(args[i], rounding[i])) EXCEPT !.warnings = << >>]

\* the call with housePrice 1,000,000 and userIncome 50,000 has returned, with
\* the 10x warning and a finite net cost
WarnedCallReturned ==
    \E i \in DOMAIN result :
        /\ args[i].housePrice = FromInt(1000000)
        /\ args[i].userIncome = FromInt(50000)
        /\ "House price is more than 10x annual income - may not be affordable"
               \in Range(result[i].warnings)
        /\ IsFinite(result[i].totalNetCost)

\* C8: in every result, isAffordable is frontEndRatio <= 0.28, frontEndRatio is
\* monthlyPayment / (userIncome / 12), and monthlyPayment is (annual mortgage
\* payment + property tax + insurance + maintenance) / 12.
AffordableIffRatioAtMost28 ==
    \A i \in DOMAIN result :
        /\ result[i].isAffordable = FLeq(result[i].frontEndRatio, Num(Dec(28, 100)))
        /\ result[i].frontEndRatio =
               FDiv(result[i].monthlyPayment, FDiv(args[i].userIncome, FromInt(12)))
        /\ result[i].monthlyPayment =
               FDiv(FAdd(FAdd(FAdd(result[i].breakdown.annualMortgagePayment,
                                   result[i].breakdown.propertyTax),
                              result[i].breakdown.insurance),
                         result[i].breakdown.maintenance),
                    FromInt(12))

\* a call with an income has returned an affordable result
AffordableResult ==
    \E i \in DOMAIN result :
        /\ result[i].isAffordable
        /\ FGt(result[i].frontEndRatio, Zero(0))
        /\ FGt(args[i].userIncome, Zero(0))


(***************************************************************************)
(* validateInputs(housePrice, userIncome, mortgageRate, homeAppreciation,  *)
(* downPayment)                                                            *)
(***************************************************************************)
\* the values at, inside and outside the ends of each range
ValidateArgs ==
    [housePrice : HousePrices,
     userIncome : Incomes,
     mortgageRate : {Num(Dec(-5, 10)), Zero(0), FromInt(20), Num(Dec(205, 10))},
     homeAppreciation : {Num(Dec(-105, 10)), FromInt(-10), FromInt(20), Num(Dec(205, 10))},
     downPayment : {Num(Dec(25, 10)), FromInt(3), FromInt(50), Num(Dec(505, 10))}]

InitValidate == args \in {<<a>> : a \in ValidateArgs} /\ NoCalls

ValidateInputs(i) ==
    /\ Pending(i)
    /\ result' = result @@ (i :> validateInputs(args[i].housePrice, args[i].userIncome,
                                                args[i].mortgageRate, args[i].homeAppreciation,
                                                args[i].downPayment))
    /\ UNCHANGED <<args, rounding, locals>>

NextValidate == \E i \in DOMAIN args : ValidateInputs(i)

SpecValidate == InitValidate /\ [][NextValidate]_vars

\* two inputs, with different values inside and outside the ranges
PairArgs ==
    [housePrice : {Zero(0), FromInt(500000)},
     userIncome : {FromInt(50000)},
     mortgageRate : {Num(Dec(65, 10)), Num(Dec(205, 10)), FromInt(25)},
     homeAppreciation : {FromInt(3), Num(Dec(205, 10))},
     downPayment : {FromInt(20), Num(Dec(505, 10))}]

InitAdditive == args \in {<<a, b>> : a \in PairArgs, b \in PairArgs} /\ NoCalls

SpecAdditive == InitAdditive /\ [][NextValidate]_vars

\* the six conditions of an input, in the order of the checks
Conditions(a) ==
    <<FLeq(a.housePrice, Zero(0)),
      FLeq(a.userIncome, Zero(0)),
      FLt(a.mortgageRate, Zero(0)) \/ FGt(a.mortgageRate, FromInt(20)),
      FLt(a.homeAppreciation, FromInt(-10)) \/ FGt(a.homeAppreciation, FromInt(20)),
      FLt(a.downPayment, FromInt(3)) \/ FGt(a.downPayment, FromInt(50)),
      FGt(a.housePrice, FMul(a.userIncome, FromInt(10)))>>

\* the message of each condition for an input
Messages(a) ==
    <<"House price must be positive",
      "User income must be positive",
      "Mortgage rate seems unrealistic (" \o NumberToString(a.mortgageRate) \o "%)",
      "Home appreciation rate seems extreme (" \o NumberToString(a.homeAppreciation) \o "%)",
      "Down payment percentage seems unusual (" \o NumberToString(a.downPayment) \o "%)",
      "House price is more than 10x annual income - may not be affordable">>

Violated(a) == {k \in 1..6 : Conditions(a)[k]}

\* C5: the warnings returned for an input are exactly the messages of the
\* conditions that hold, each once, in the order of the conditions; values on
\* the ends of a range draw no warning and no condition gives no warning.
WarningsAreTheViolatedConditionsInOrder ==
    \A i \in DOMAIN result :
        /\ Len(result[i]) = Cardinality(Violated(args[i]))
        /\ \A k \in Violated(args[i]) :
               result[i][Cardinality({j \in Violated(args[i]) : j <= k})] = Messages(args[i])[k]

\* an input on the end of every range has been validated and drew no warning
BoundaryInputDrawsNoWarning ==
    \E i \in DOMAIN result :
        /\ result[i] = << >>
        /\ args[i].mortgageRate = FromInt(20)
        /\ args[i].homeAppreciation = FromInt(-10)
        /\ args[i].downPayment = FromInt(3)
        /\ args[i].housePrice = FromInt(500000)
        /\ args[i].userIncome = FromInt(50000)

RECURSIVE IsSubseq(_, _)
IsSubseq(u, t) ==
    IF u = << >> THEN TRUE
    ELSE IF t = << >> THEN FALSE
    ELSE IF Head(u) = Head(t) THEN IsSubseq(Tail(u), Tail(t))
    ELSE IsSubseq(u, Tail(t))

\* the condition each warning of a validated input belongs to
Kinds(i) == [p \in DOMAIN result[i] |-> CHOOSE k \in 1..6 : result[i][p] = Messages(args[i])[k]]

\* C6 as stated: when the second input violates strictly more conditions, its
\* warnings strictly extend those of the first: every warning of the first
\* appears in the second, in the same relative order.
WarningsOfSupersetExtend ==
    \A i, j \in DOMAIN result :
        (Violated(args[i]) \subseteq Violated(args[j]) /\ Violated(args[i]) # Violated(args[j]))
            => /\ Len(result[i]) < Len(result[j])
               /\ IsSubseq(result[i], result[j])

\* C6 amended: when the second input violates strictly more conditions, its
\* warnings are more and hold a warning of every condition the first has, in
\* the same relative order; a warning of the first appears itself in the
\* second when the two inputs give its condition the same message.
WarningKindsOfSupersetExtend ==
    \A i, j \in DOMAIN result :
        (Violated(args[i]) \subseteq Violated(args[j]) /\ Violated(args[i]) # Violated(args[j]))
            => /\ Len(result[i]) < Len(result[j])
               /\ IsSubseq(Kinds(i), Kinds(j))
               /\ \A p \in DOMAIN result[i] :
                      Messages(args[i])[Kinds(i)[p]] = Messages(args[j])[Kinds(i)[p]]
                          => result[i][p] \in Range(result[j])

\* two validated inputs, the second violating more, with another mortgage rate
SupersetWithAnotherRate ==
    \E i, j \in DOMAIN result :
        /\ Violated(args[i]) = {3}
        /\ Violated(args[j]) = {1, 3}
        /\ args[i].mortgageRate # args[j].mortgageRate

(***************************************************************************)
(* getFederalTaxRate(income, filingStatus)                                 *)
(***************************************************************************)
\* the bracket bounds of the two tables
Thresholds ==
    {11000, 44725, 95375, 182050, 231250, 578125, 22000, 89450, 190750, 364200, 462500, 693750}

\* each bound, one above it, and no income
TaxIncomes == {FromInt(0)} \cup {FromInt(t) : t \in Thresholds} \cup {FromInt(t + 1) : t \in Thresholds}

TaxArgs == [income : TaxIncomes, filingStatus : {FilingStatus.SINGLE, FilingStatus.MARRIED_FILING_JOINTLY}]

InitTax == args \in {<<a, b>> : a \in TaxArgs, b \in TaxArgs} /\ NoCalls

GetFederalTaxRate(i) ==
    /\ Pending(i)
    /\ result' = result @@ (i :> getFederalTaxRate(args[i].income, args[i].filingStatus))
    /\ UNCHANGED <<args, rounding, locals>>

NextTax == \E i \in DOMAIN args : GetFederalTaxRate(i)

SpecTax == InitTax /\ [][NextTax]_vars

\* the 2023 tables: <<upper bound, rate in percent>>, ascending
Brackets(filingStatus) ==
    IF filingStatus = FilingStatus.SINGLE
    THEN <<<<11000, 10>>, <<44725, 12>>, <<95375, 22>>, <<182050, 24>>, <<231250, 32>>, <<578125, 35>>>>
    ELSE <<<<22000, 10>>, <<89450, 12>>, <<190750, 22>>, <<364200, 24>>, <<462500, 32>>, <<693750, 35>>>>

\* the rate of the first bracket from k whose bound is >= income, the top rate past the last
RECURSIVE FirstBracket(_, _, _)
FirstBracket(income, table, k) ==
    IF k > Len(table) THEN Num(Dec(37, 100))
    ELSE IF FLeq(income, FromInt(table[k][1])) THEN Num(Dec(table[k][2], 100))
    ELSE FirstBracket(income, table, k + 1)

\* C7: the rate is that of the first bracket whose upper bound is >= income
\* (37% above the last); for one filing status it does not decrease with
\* income; every married bound is >= the single bound of its bracket, and for
\* one income the married rate is at most the single rate.
FederalRateIsMonotoneStep ==
    /\ \A i \in DOMAIN result :
           result[i] = FirstBracket(args[i].income, Brackets(args[i].filingStatus), 1)
    /\ \A i, j \in DOMAIN result :
           /\ (args[i].filingStatus = args[j].filingStatus /\ FLeq(args[i].income, args[j].income))
                  => FLeq(result[i], result[j])
           /\ (/\ args[i].income = args[j].income
               /\ args[i].filingStatus = FilingStatus.MARRIED_FILING_JOINTLY
               /\ args[j].filingStatus = FilingStatus.SINGLE)
                  => FLeq(result[i], result[j])
    /\ \A k \in 1..6 :
           Brackets(FilingStatus.MARRIED_FILING_JOINTLY)[k][1] >= Brackets(FilingStatus.SINGLE)[k][1]

\* one income just above a single bound, looked up for both filing statuses:
\* the married rate is the lower one
MarriedRateBelowSingleRate ==
    \E i, j \in DOMAIN result :
        /\ args[i].income = FromInt(11001)
        /\ args[j].income = FromInt(11001)
        /\ args[i].filingStatus = FilingStatus.MARRIED_FILING_JOINTLY
        /\ args[j].filingStatus = FilingStatus.SINGLE
        /\ FLt(result[i], result[j])


(***************************************************************************)
(* the deductions of calculateHomeNetCost for two house prices             *)
(***************************************************************************)
\* the rates and the down payment of a pair of calls: the form's values,
\* then a negative mortgage rate, a negative property tax rate and a down
\* payment above the price
DeductionRates ==
    {[mortgageRate |-> Num(Dec(65, 10)), propertyTaxRate |-> Num(Dec(12, 10)), downPaymentPercent |-> FromInt(20)],
     [mortgageRate |-> FromInt(-1), propertyTaxRate |-> Num(Dec(12, 10)), downPaymentPercent |-> FromInt(20)],
     [mortgageRate |-> Num(Dec(65, 10)), propertyTaxRate |-> FromInt(-1), downPaymentPercent |-> FromInt(20)],
     [mortgageRate |-> Num(Dec(65, 10)), propertyTaxRate |-> Num(Dec(12, 10)), downPaymentPercent |-> FromInt(120)]}

DeductionParams(housePrice, rates) ==
    rates @@ [housePrice |-> housePrice,
              userIncome |-> FromInt(100000),
              homeAppreciation |-> FromInt(3),
              filingStatus |-> FilingStatus.SINGLE] @@ FormFields

\* two calls that differ in the house price only, the lower price first
InitDeduction ==
    /\ args \in {<<DeductionParams(lo, rates), DeductionParams(hi, rates)>> :
                     <<lo, hi, rates>> \in {t \in HousePrices \X HousePrices \X DeductionRates :
                                                FLt(t[1], t[2])}}
    /\ NoCalls

SpecDeduction == InitDeduction /\ [][Next]_vars

\* a number with no fraction
IsWhole(x) == IsZero(x) \/ (IsFinite(x) /\ (x.e >= 0 \/ BLowZero(x.m, 0 - x.e)))

\* rates that are not negative and a down payment of 0 to 99 percent
NonNegativeRates(p) ==
    /\ IsFinite(p.mortgageRate) /\ FLeq(Zero(0), p.mortgageRate)
    /\ IsFinite(p.propertyTaxRate) /\ FLeq(Zero(0), p.propertyTaxRate)
    /\ FLeq(Zero(0), p.downPaymentPercent) /\ FLeq(p.downPaymentPercent, FromInt(99))
    /\ IsWhole(p.housePrice)

\* all properties but the house price are the same
SameButHousePrice(p, q) == [p EXCEPT !.housePrice = q.housePrice] = q

\* the two deductions of call i do not exceed those of call j
DeductionsLeq(i, j) ==
    /\ FLeq(locals[i].propertyTaxDeduction, locals[j].propertyTaxDeduction)
    /\ FLeq(locals[i].annualMortgageInterest, locals[j].annualMortgageInterest)

\* the deductions of call i are within their caps
DeductionsCapped(i) ==
    /\ FLeq(locals[i].propertyTaxDeduction, FromInt(10000))
    /\ FLeq(locals[i].annualMortgageInterest, FMul(FromInt(750000), locals[i].mortgageRateDecimal))

\* a deduction of call i that has reached its cap is the same in call j
DeductionsFlat(i, j) ==
    /\ FLeq(FromInt(10000), locals[i].propertyTax)
           => locals[j].propertyTaxDeduction = locals[i].propertyTaxDeduction
    /\ FLeq(FromInt(750000), locals[i].loanAmount)
           => locals[j].annualMortgageInterest = locals[i].annualMortgageInterest

\* C9 as stated: for two calls that differ in the house price only, the
\* property tax deduction and the deductible mortgage interest of the lower
\* price do not exceed those of the higher price, both are within their caps
\* (10000 and 750000 x rate), and a deduction that has reached its cap at the
\* lower price is the same at the higher price.
DeductionsMonotoneInHousePrice ==
    \A i, j \in DOMAIN locals :
        (SameButHousePrice(args[i], args[j]) /\ FLeq(args[i].housePrice, args[j].housePrice))
            => DeductionsLeq(i, j) /\ DeductionsCapped(i) /\ DeductionsFlat(i, j)

\* C9 amended: the same, for a mortgage rate and a property tax rate that are
\* not negative, a down payment of 0 to 99 percent and whole-dollar prices.
DeductionsMonotoneForNonNegativeRates ==
    \A i, j \in DOMAIN locals :
        (/\ SameButHousePrice(args[i], args[j])
         /\ FLeq(args[i].housePrice, args[j].housePrice)
         /\ NonNegativeRates(args[i]))
            => DeductionsLeq(i, j) /\ DeductionsCapped(i) /\ DeductionsFlat(i, j)

\* two calls with the form's rates: the higher price reaches both caps, the
\* lower price neither
HigherPriceReachesCaps ==
    \E i, j \in DOMAIN locals :
        /\ SameButHousePrice(args[i], args[j])
        /\ NonNegativeRates(args[i])
        /\ FLt(locals[i].propertyTax, FromInt(10000))
        /\ FLt(locals[i].loanAmount, FromInt(750000))
        /\ locals[j].propertyTaxDeduction = FromInt(10000)
        /\ FLt(FromInt(10000), locals[j].propertyTax)
        /\ locals[j].mortgagePrincipalForDeduction = FromInt(750000)
        /\ FLt(FromInt(750000), locals[j].loanAmount)

(***************************************************************************)
(* calculateMonthlyMortgagePayment(loanAmount, annualRate, years)          *)
(***************************************************************************)
MaxLoanSteps == 8

\* years is Undefined when the caller leaves the argument out
MortgageArgs ==
    [loanAmount : {FromInt(1000 * k) : k \in 0..MaxLoanSteps},
     annualRate : {Zero(0), Zero(1), Num(Dec(65, 1000))},
     years : {Undefined, FromInt(0), FromInt(15), FromInt(30)}]

InitMortgage == args \in {<<a>> : a \in MortgageArgs} /\ NoCalls

CalculateMonthlyMortgagePayment(i, r) ==
    /\ Pending(i)
    /\ rounding' = rounding @@ (i :> r)
    /\ result' = result @@ (i :> calculateMonthlyMortgagePayment(args[i].loanAmount,
                                                                 args[i].annualRate,
                                                                 args[i].years, r))
    /\ UNCHANGED <<args, locals>>

NextMortgage == \E i \in DOMAIN args, r \in Roundings : CalculateMonthlyMortgagePayment(i, r)

SpecMortgage == InitMortgage /\ [][NextMortgage]_vars

\* the monthly rate and the number of payments of a call
MonthlyRate(a) == FDiv(a.annualRate, FromInt(12))

NumPayments(a) == FMul(IF a.years = Undefined THEN FromInt(30) ELSE a.years, FromInt(12))

FAbs(x) == IF x.k = "nan" THEN x ELSE [x EXCEPT !.s = 0]

\* the distance between x and the next number of greater magnitude
Ulp(x) == RoundPack(0, <<1>>, x.e, FALSE)

WithinOneUlp(p, x) ==
    IF IsZero(x) THEN IsZero(p) ELSE FLeq(FAbs(FSub(p, x)), Ulp(x))

\* what a call returns: the quotient for a zero monthly rate, else the
\* amortization formula
QuotientOrAmortization(i) ==
    IF FEq(MonthlyRate(args[i]), Zero(0))
    THEN result[i] = FDiv(args[i].loanAmount, NumPayments(args[i]))
    ELSE result[i] = Amortize(args[i].loanAmount, MonthlyRate(args[i]),
                              MathPow(FAdd(FromInt(1), MonthlyRate(args[i])),
                                      NumPayments(args[i]), rounding[i]))

\* C10 as stated: for a zero rate the call returns loanAmount / numPayments,
\* and that payment times numPayments equals loanAmount exactly; the
\* amortization formula is used only for a non-zero monthly rate.
ZeroRatePaymentTimesPaymentsIsLoan ==
    \A i \in DOMAIN result :
        /\ QuotientOrAmortization(i)
        /\ FEq(MonthlyRate(args[i]), Zero(0))
               => FEq(FMul(result[i], NumPayments(args[i])), args[i].loanAmount)

\* C10 amended: for a zero rate the call returns the rounded quotient
\* loanAmount / numPayments, and for a number of payments that is not zero
\* that payment times numPayments is within one unit in the last place of
\* loanAmount; the amortization formula is used only for a non-zero monthly
\* rate.
ZeroRatePaymentIsRoundedQuotient ==
    \A i \in DOMAIN result :
        /\ QuotientOrAmortization(i)
        /\ (FEq(MonthlyRate(args[i]), Zero(0)) /\ ~IsZero(NumPayments(args[i])))
               => WithinOneUlp(FMul(result[i], NumPayments(args[i])), args[i].loanAmount)

\* a zero-rate call whose payment times the number of payments is not the loan
ZeroRateProductOffByOneUlp ==
    \E i \in DOMAIN result :
        /\ FEq(MonthlyRate(args[i]), Zero(0))
        /\ ~IsZero(NumPayments(args[i]))
        /\ result[i] = FDiv(args[i].loanAmount, NumPayments(args[i]))
        /\ ~FEq(FMul(result[i], NumPayments(args[i])), args[i].loanAmount)


=============================================================================
